---- MODULE Spec2Model ----
(***************************************************************************)
(* Model of the unified attribution tracker, lmv-tracker.js v3.1.0         *)
(* (src/lmv-tracker.js lines 849-1536): session lifecycle, consent gate,   *)
(* reporting calls, link decoration and form population.                   *)
(*                                                                         *)
(* JavaScript objects are functions from property names to values; a       *)
(* missing property is a name outside the DOMAIN.  Strings that the code   *)
(* trims or tests for emptiness are sequences of characters.               *)
(***************************************************************************)
EXTENDS Integers, Sequences, FiniteSets, TLC

VARIABLES
    now,                  \* Date.now() of the browser clock
    location,             \* window.location: [pathname, search]
    title,                \* document.title
    cookie,               \* document.cookie, a sequence of <<name, value>>
    storageMode,          \* "ok", "quota" (setItem throws), "denied" (all throw)
    config,               \* the config object, read once at start-up
    localStorage,         \* key -> stored string, a missing key is absent
    trackerData,          \* let trackerData
    isInitialized,        \* let isInitialized
    consentGiven,         \* let consentGiven
    pendingInitialization,\* let pendingInitialization
    lmvTrackerData,       \* window.lmvTrackerData
    uuids,                \* number of identifiers generateUUID has produced
    tasks,                \* suspended initializeTracker invocations
    requests,             \* fetch calls issued by the script of this page
    links,                \* the anchors of the document
    elements,             \* the form controls of the document
    observers,            \* MutationObservers armed on document.body
    acknowledged,         \* ids whose session request the API has answered 2xx
    timers,               \* pending setTimeout callbacks of the observers
    lmvTrackerTimeout,    \* window.lmvTrackerTimeout, 0 while undefined
    batches,              \* mutation batches delivered on this page so far
    loads,                \* page loads so far
    calls,                \* host-script API calls on this page so far
    last                  \* the latest handler run and its initializeTracker frame

vars == <<now, location, title, cookie, storageMode, config, localStorage,
          trackerData, isInitialized, consentGiven, pendingInitialization,
          lmvTrackerData, uuids, tasks, requests, links, elements, observers,
          acknowledged, timers, lmvTrackerTimeout, batches, loads, calls, last>>

-----------------------------------------------------------------------------
(* Bounds of the model *)

MaxLoads == 3
MaxCalls == 2
MaxTasks == 2
MaxBatches == 2
MaxParams == 2

-----------------------------------------------------------------------------
(* JavaScript values *)

NULL == [null |-> TRUE]                 \* null / undefined, for object slots
NoValue == <<"null">>                   \* null, for string-returning calls
EMPTY == [k \in {} |-> TRUE]            \* the object literal {}

\* {...a, ...b} and Object.assign(a, b): b's properties override a's
Spread(a, b) ==
    [k \in (DOMAIN a) \cup (DOMAIN b) |-> IF k \in DOMAIN b THEN b[k] ELSE a[k]]

Has(obj, k) == k \in DOMAIN obj

\* truthiness of a string value (null and "" are falsy)
TruthyStr(v) == v # NoValue /\ v # <<>>

\* truthiness of obj[k] for a string-valued property
TruthyProp(obj, k) == Has(obj, k) /\ TruthyStr(obj[k])

\* truthiness of obj[k] for a number-valued property (0 is falsy)
TruthyNum(obj, k) == Has(obj, k) /\ obj[k] # 0

WhiteSpace == {" "}

RECURSIVE trimStart(_)
trimStart(s) ==
    IF s # <<>> /\ Head(s) \in WhiteSpace THEN trimStart(Tail(s)) ELSE s

RECURSIVE trimEnd(_)
trimEnd(s) ==
    IF s # <<>> /\ s[Len(s)] \in WhiteSpace
    THEN trimEnd(SubSeq(s, 1, Len(s) - 1)) ELSE s

\* String.prototype.trim
trim(s) == trimEnd(trimStart(s))

Range(s) == {s[i] : i \in DOMAIN s}

-----------------------------------------------------------------------------
(* Configuration and constants of the script *)

sessionTimeout == 30
STORAGE_KEY == "lmv_tracker"
consentStorageKey == "lmv_consent_given"
SESSION_TIMEOUT_MS == sessionTimeout * 60 * 1000
UTM_FIELDS == <<"utm_source", "utm_medium", "utm_campaign", "utm_term",
                "utm_content", "fbclid", "gclid", "fbp">>

DefaultConfig ==
    [requireConsent |-> FALSE, enablePageViewTracking |-> TRUE,
     enableLinkDecoration |-> TRUE, enableFormPopulation |-> TRUE]

-----------------------------------------------------------------------------
(* URLSearchParams over a sequence of <<key, value>> pairs *)

paramsHas(params, key) == \E i \in DOMAIN params : params[i][1] = key

paramsFirst(params, key) ==
    CHOOSE i \in DOMAIN params :
        params[i][1] = key /\ \A j \in 1..(i - 1) : params[j][1] # key

\* URLSearchParams.get: the first value of the key, or null
paramsGet(params, key) ==
    IF paramsHas(params, key) THEN params[paramsFirst(params, key)][2]
    ELSE NoValue

\* URLSearchParams.set: replaces the first occurrence and deletes the others,
\* appends when the key is absent
paramsSet(params, key, value) ==
    IF paramsHas(params, key)
    THEN LET f == paramsFirst(params, key)
             keep == SelectSeq([i \in DOMAIN params |-> <<i, params[i]>>],
                               LAMBDA p : p[2][1] # key \/ p[1] = f)
         IN [i \in DOMAIN keep |->
                IF keep[i][1] = f THEN <<key, value>> ELSE keep[i][2]]
    ELSE Append(params, <<key, value>>)

-----------------------------------------------------------------------------
(* Storage utilities *)

\* JSON.stringify of a record / JSON.parse of what it produced; any other
\* stored text does not parse
JSONstringify(data) == [json |-> data]
JSONparses(raw) == Has(raw, "json")
JSONparse(raw) == raw.json

\* localStorage.getItem, outside the try/catch: "throws" when storage is denied
getItemThrows(mode) == mode = "denied"
setItemThrows(mode) == mode \in {"quota", "denied"}
removeItemThrows(mode) == mode = "denied"

\* variant of getStoredData whose read is not guarded
getStoredDataUnguarded(ls, mode) ==
    IF ~Has(ls, STORAGE_KEY) THEN NULL
    ELSE IF JSONparses(ls[STORAGE_KEY]) THEN JSONparse(ls[STORAGE_KEY])
    ELSE NULL

getStoredData(ls, mode) ==
    IF getItemThrows(mode) THEN NULL
    ELSE IF ~Has(ls, STORAGE_KEY) THEN NULL
    ELSE IF JSONparses(ls[STORAGE_KEY]) THEN JSONparse(ls[STORAGE_KEY])
    ELSE NULL

setItem(ls, mode, key, value) ==
    IF setItemThrows(mode) THEN ls
    ELSE [k \in (DOMAIN ls) \cup {key} |-> IF k = key THEN value ELSE ls[k]]

\* variant of saveStoredData that leaves the write to a later task
saveStoredDataDeferred(ls, mode, data) == ls

saveStoredData(ls, mode, data) ==
    setItem(ls, mode, STORAGE_KEY, JSONstringify(data))

removeItem(ls, key) == [k \in (DOMAIN ls) \ {key} |-> ls[k]]

-----------------------------------------------------------------------------
(* UTM extraction and the pixel cookie *)

RECURSIVE extractFrom(_, _, _)
extractFrom(params, fieldsLeft, data) ==
    IF fieldsLeft = <<>> THEN data
    ELSE LET key == Head(fieldsLeft)
             value == paramsGet(params, key)
         IN extractFrom(params, Tail(fieldsLeft),
                IF TruthyStr(value) /\ TruthyStr(trim(value))
                THEN Spread(data, [k \in {key} |-> trim(value)])
                ELSE data)

\* variant of extractUTMsFromURL that walks the names of the query string
extractUTMsFromURLAllNames(search) ==
    extractFrom(search, [i \in DOMAIN search |-> search[i][1]], EMPTY)

extractUTMsFromURL(search) == extractFrom(search, UTM_FIELDS, EMPTY)

\* the value of the first cookie named _fbp, or null
getFbpCookie(jar) ==
    IF \E i \in DOMAIN jar : jar[i][1] = "_fbp"
    THEN jar[CHOOSE i \in DOMAIN jar :
                jar[i][1] = "_fbp" /\ \A j \in 1..(i - 1) : jar[j][1] # "_fbp"][2]
    ELSE NoValue

-----------------------------------------------------------------------------
(* Session management *)

\* variant of shouldStartNewSession whose comparison is not strict
shouldStartNewSessionInclusive(lastUpdated, clock) ==
    IF lastUpdated = 0 THEN TRUE
    ELSE clock - lastUpdated >= SESSION_TIMEOUT_MS

shouldStartNewSession(lastUpdated, clock) ==
    IF lastUpdated = 0 THEN TRUE
    ELSE clock - lastUpdated > SESSION_TIMEOUT_MS

\* crypto.randomUUID(): an identifier no earlier call has returned
generateUUID(produced) == produced + 1

isValidTrackerData(data) ==
    /\ data # NULL
    /\ TruthyNum(data, "uuid")
    /\ TruthyNum(data, "created_at")
    /\ TruthyNum(data, "last_updated")

\* variants of newSessionRecord with a plausible slip each
newSessionRecordDropsStored(stored, uuid, clock, currentPath, currentTitle, utms) ==
    Spread([uuid |-> uuid, created_at |-> clock, last_updated |-> clock,
            page_views |-> 1, current_path |-> currentPath,
            current_title |-> currentTitle],
           utms)

newSessionRecordStoredWins(stored, uuid, clock, currentPath, currentTitle, utms) ==
    Spread(Spread([uuid |-> uuid, created_at |-> clock, last_updated |-> clock,
                   page_views |-> 1, current_path |-> currentPath,
                   current_title |-> currentTitle],
                  utms),
           IF isValidTrackerData(stored) THEN stored ELSE EMPTY)

newSessionRecordStampsCreation(stored, uuid, clock, currentPath, currentTitle, utms) ==
    Spread(Spread(Spread([uuid |-> uuid, last_updated |-> clock,
                          page_views |-> 1, current_path |-> currentPath,
                          current_title |-> currentTitle],
                         IF isValidTrackerData(stored) THEN stored ELSE EMPTY),
                  [created_at |-> clock]),
           utms)

newSessionRecord(stored, uuid, clock, currentPath, currentTitle, utms) ==
    Spread(Spread([uuid |-> uuid, created_at |-> clock, last_updated |-> clock,
                   page_views |-> 1, current_path |-> currentPath,
                   current_title |-> currentTitle],
                  IF isValidTrackerData(stored) THEN stored ELSE EMPTY),
           utms)

\* variants of continuedSessionRecord with a plausible slip each
continuedSessionRecordNoCount(stored, clock, currentPath, currentTitle, utms) ==
    LET data == Spread(stored,
                  [last_updated |-> clock,
                   current_path |-> currentPath,
                   current_title |-> currentTitle])
    IN IF Cardinality(DOMAIN utms) > 0 THEN Spread(data, utms) ELSE data

continuedSessionRecordStoredWins(stored, clock, currentPath, currentTitle, utms) ==
    LET data == Spread(stored,
                  [last_updated |-> clock,
                   page_views |-> (IF TruthyNum(stored, "page_views")
                                   THEN stored.page_views ELSE 0) + 1,
                   current_path |-> currentPath,
                   current_title |-> currentTitle])
    IN IF Cardinality(DOMAIN utms) > 0 THEN Spread(utms, data) ELSE data

continuedSessionRecord(stored, clock, currentPath, currentTitle, utms) ==
    LET data == Spread(stored,
                  [last_updated |-> clock,
                   page_views |-> (IF TruthyNum(stored, "page_views")
                                   THEN stored.page_views ELSE 0) + 1,
                   current_path |-> currentPath,
                   current_title |-> currentTitle])
        hasNewUTMs == Cardinality(DOMAIN utms) > 0
    IN IF hasNewUTMs THEN Spread(data, utms) ELSE data

\* "Capture fbp cookie if available and not already stored"
captureFbp(data, fbp) ==
    IF TruthyStr(fbp) /\ ~TruthyProp(data, "fbp")
    THEN Spread(data, [fbp |-> fbp]) ELSE data

currentPathOf(loc) == <<loc.pathname, loc.search>>

-----------------------------------------------------------------------------
(* Consent management *)

\* variant of checkConsent that takes any stored value for consent
checkConsentAnyValue(S, E) ==
    IF ~E.config.requireConsent THEN TRUE
    ELSE /\ ~getItemThrows(E.mode)
         /\ Has(S.localStorage, consentStorageKey)

\* variant of checkConsent that takes a missing stored value for consent
checkConsentUnlessRefused(S, E) ==
    IF ~E.config.requireConsent THEN TRUE
    ELSE /\ ~getItemThrows(E.mode)
         /\ \/ ~Has(S.localStorage, consentStorageKey)
            \/ S.localStorage[consentStorageKey] = "true"

\* the value checkConsent computes and stores in consentGiven
checkConsent(S, E) ==
    IF ~E.config.requireConsent THEN TRUE
    ELSE /\ ~getItemThrows(E.mode)
         /\ Has(S.localStorage, consentStorageKey)
         /\ S.localStorage[consentStorageKey] = "true"

-----------------------------------------------------------------------------
(* API communication *)

RECURSIVE utmParamsOf(_, _)
utmParamsOf(sessionData, fieldsLeft) ==
    IF fieldsLeft = <<>> THEN EMPTY
    ELSE LET field == Head(fieldsLeft)
             rest == utmParamsOf(sessionData, Tail(fieldsLeft))
         IN IF TruthyProp(sessionData, field)
            THEN Spread([k \in {field} |-> sessionData[field]], rest)
            ELSE rest

withFbp(params, fbp) ==
    IF TruthyStr(fbp) THEN Spread(params, [fbp |-> fbp]) ELSE params

\* body of POST {apiBaseUrl}/sessions
sessionRequest(sessionData, fbp) ==
    [kind |-> "session", uuid |-> sessionData.uuid,
     params |-> withFbp(utmParamsOf(sessionData, UTM_FIELDS), fbp)]

\* body of POST {apiBaseUrl}/sessions/{uuid}/events
pageViewRequest(sessionData, path, docTitle, utmParams, fbp) ==
    [kind |-> "event", uuid |-> sessionData.uuid, path |-> path,
     title |-> docTitle, params |-> withFbp(utmParams, fbp)]

ResponseOutcomes == {"ok", "okBadJson", "status", "error"}

\* the outcomes in which the API has answered with a 2xx status
HttpSuccess == {"ok", "okBadJson"}

\* what createOrUpdateSession / logPageViewEvent return for an outcome
apiResult(outcome) == outcome = "ok"

-----------------------------------------------------------------------------
(* Link decoration.  A link is [sel, host, valid, query]: sel says whether   *)
(* its href attribute matches the selector a[href*=targetDomain],            *)
(* a[href^=https://paymentDomain]; host is the hostname of the resolved URL; *)
(* valid says whether new URL(link.href) succeeds.                           *)

RECURSIVE setMissingParams(_, _, _)
setMissingParams(query, data, fieldsLeft) ==
    IF fieldsLeft = <<>> THEN query
    ELSE LET param == Head(fieldsLeft)
         IN setMissingParams(
                IF TruthyProp(data, param) /\ ~paramsHas(query, param)
                THEN paramsSet(query, param, data[param]) ELSE query,
                data, Tail(fieldsLeft))

\* variant of decorateTargetQuery that lets the record override the link
decorateTargetQueryOverwrites(query, data, fbp) ==
    LET q1 == paramsSet(query, "uuid", data.uuid)
        q2 == setMissingParams(
                 SelectSeq(q1, LAMBDA p : p[1] \notin Range(UTM_FIELDS)),
                 data, UTM_FIELDS)
    IN IF TruthyStr(fbp) /\ ~paramsHas(q2, "fbp")
       THEN paramsSet(q2, "fbp", fbp) ELSE q2

decorateTargetQuery(query, data, fbp) ==
    LET q1 == paramsSet(query, "uuid", data.uuid)
        q2 == setMissingParams(q1, data, UTM_FIELDS)
    IN IF TruthyStr(fbp) /\ ~paramsHas(q2, "fbp")
       THEN paramsSet(q2, "fbp", fbp) ELSE q2

\* variants of decorateLink with a plausible slip each: appending the
\* identifier without the "already decorated" test, ...
decorateLinkAppends(link, data, fbp) ==
    IF ~link.sel \/ ~link.valid THEN link
    ELSE IF link.host = "target"
    THEN IF data # NULL
         THEN [link EXCEPT
                 !.query = setMissingParams(Append(@, <<"uuid", data.uuid>>),
                                            data, UTM_FIELDS)]
         ELSE link
    ELSE IF link.host = "payment"
    THEN IF ~paramsHas(link.query, "client_reference_id") /\ data # NULL
         THEN [link EXCEPT
                 !.query = paramsSet(link.query, "client_reference_id", data.uuid)]
         ELSE link
    ELSE link

\* ... bringing a link decorated for another session up to date, ...
decorateLinkRefreshesId(link, data, fbp) ==
    IF ~link.sel \/ ~link.valid THEN link
    ELSE IF link.host = "target"
    THEN IF data # NULL
         THEN [link EXCEPT !.query = decorateTargetQuery(link.query, data, fbp)]
         ELSE link
    ELSE IF link.host = "payment"
    THEN IF ~paramsHas(link.query, "client_reference_id") /\ data # NULL
         THEN [link EXCEPT
                 !.query = paramsSet(link.query, "client_reference_id", data.uuid)]
         ELSE link
    ELSE link

\* ... setting the reference id of a payment link that already has one, ...
decorateLinkPaymentOverwrites(link, data, fbp) ==
    IF ~link.sel \/ ~link.valid THEN link
    ELSE IF link.host = "target"
    THEN IF ~paramsHas(link.query, "uuid") /\ data # NULL
         THEN [link EXCEPT !.query = decorateTargetQuery(link.query, data, fbp)]
         ELSE link
    ELSE IF link.host = "payment"
    THEN IF data # NULL
         THEN [link EXCEPT
                 !.query = paramsSet(link.query, "client_reference_id", data.uuid)]
         ELSE link
    ELSE link

\* ... and trusting the selector instead of testing the hostname
decorateLinkBySelector(link, data, fbp) ==
    IF ~link.sel \/ ~link.valid THEN link
    ELSE IF link.host = "payment"
    THEN IF ~paramsHas(link.query, "client_reference_id") /\ data # NULL
         THEN [link EXCEPT
                 !.query = paramsSet(link.query, "client_reference_id", data.uuid)]
         ELSE link
    ELSE IF ~paramsHas(link.query, "uuid") /\ data # NULL
    THEN [link EXCEPT !.query = decorateTargetQuery(link.query, data, fbp)]
    ELSE link

\* one iteration of links.forEach; reading trackerData.uuid of a null
\* trackerData throws inside the per-link try and leaves the link as it was
decorateLink(link, data, fbp) ==
    IF ~link.sel \/ ~link.valid THEN link
    ELSE IF link.host = "target"
    THEN IF ~paramsHas(link.query, "uuid") /\ data # NULL
         THEN [link EXCEPT !.query = decorateTargetQuery(link.query, data, fbp)]
         ELSE link
    ELSE IF link.host = "payment"
    THEN IF ~paramsHas(link.query, "client_reference_id") /\ data # NULL
         THEN [link EXCEPT
                 !.query = paramsSet(link.query, "client_reference_id", data.uuid)]
         ELSE link
    ELSE link

decorateLinks(doc, data, fbp, cfg) ==
    IF ~cfg.enableLinkDecoration THEN doc
    ELSE [i \in DOMAIN doc |-> decorateLink(doc[i], data, fbp)]

-----------------------------------------------------------------------------
(* Form population.  An element is [id, tagName, type, value, options].      *)

textLike(element) ==
    /\ element.tagName \in {"INPUT", "TEXTAREA"}
    /\ element.type \in {"hidden", "text", ""}

optionMatches(opt, v) == opt.value = v \/ opt.text = v

\* variant of populateElement that adds to the content of a text control
populateElementAppends(element, v) ==
    IF textLike(element) THEN [element EXCEPT !.value = @ \o v]
    ELSE IF element.tagName = "SELECT"
              /\ \E i \in DOMAIN element.options :
                    optionMatches(element.options[i], v)
    THEN LET first == CHOOSE i \in DOMAIN element.options :
                        /\ optionMatches(element.options[i], v)
                        /\ \A j \in 1..(i - 1) :
                              ~optionMatches(element.options[j], v)
         IN [element EXCEPT !.value = element.options[first].value]
    ELSE element

\* Array.from(element.options).find(...): the first matching option
populateElement(element, v) ==
    IF textLike(element) THEN [element EXCEPT !.value = v]
    ELSE IF element.tagName = "SELECT"
              /\ \E i \in DOMAIN element.options :
                    optionMatches(element.options[i], v)
    THEN LET first == CHOOSE i \in DOMAIN element.options :
                        /\ optionMatches(element.options[i], v)
                        /\ \A j \in 1..(i - 1) :
                              ~optionMatches(element.options[j], v)
         IN [element EXCEPT !.value = element.options[first].value]
    ELSE element

populateById(els, id, v) ==
    [i \in DOMAIN els |->
        IF els[i].id = id THEN populateElement(els[i], v) ELSE els[i]]

RECURSIVE populateParams(_, _, _)
populateParams(els, data, fieldsLeft) ==
    IF fieldsLeft = <<>> THEN els
    ELSE LET param == Head(fieldsLeft)
         IN populateParams(
                IF TruthyProp(data, param)
                THEN populateById(els, param, data[param]) ELSE els,
                data, Tail(fieldsLeft))

\* trackerData[param] of a null trackerData throws: safeExecute returns 0
\* and nothing has been populated
populateUTMFields(els, data, fbp, cfg) ==
    IF ~cfg.enableFormPopulation THEN els
    ELSE IF data = NULL THEN els
    ELSE LET e1 == populateParams(els, data, UTM_FIELDS)
         IN IF TruthyStr(fbp) THEN populateById(e1, "fbp", fbp) ELSE e1

-----------------------------------------------------------------------------
(* The handlers, as functions of the script's state S and the environment E  *)
(* they read.  S has a field for each mutable variable plus frame, the       *)
(* outcome and locals of the latest initializeTracker call.                  *)

Frame(init, stored, utms) == [init |-> init, stored |-> stored, utms |-> utms]
NoFrame == Frame("none", NULL, EMPTY)

\* initializeTracker up to its first await, preceded by a variant of it
\* without the isInitialized guard
initializeTrackerUnguarded(S, E) ==
    IF ~checkConsent(S, E)
    THEN [S EXCEPT !.consentGiven = FALSE,
                   !.pendingInitialization = TRUE,
                   !.frame = Frame("blocked", NULL, EMPTY)]
    ELSE LET stored == getStoredData(S.localStorage, E.mode)
             utms == extractUTMsFromURL(E.location.search)
             currentPath == currentPathOf(E.location)
             currentTitle == E.title
             create == \/ ~isValidTrackerData(stored)
                       \/ shouldStartNewSession(stored.last_updated, E.now)
             fbp == getFbpCookie(E.cookie)
             data == captureFbp(
                        IF create
                        THEN newSessionRecord(stored, generateUUID(S.uuids), E.now,
                                              currentPath, currentTitle, utms)
                        ELSE continuedSessionRecord(stored, E.now, currentPath,
                                                    currentTitle, utms),
                        fbp)
             tracking == E.config.enablePageViewTracking
         IN [S EXCEPT
               !.consentGiven = TRUE,
               !.trackerData = data,
               !.uuids = IF create THEN generateUUID(@) ELSE @,
               !.localStorage = saveStoredData(@, E.mode, data),
               !.requests = IF tracking
                            THEN Append(@, sessionRequest(data, fbp)) ELSE @,
               !.tasks = Append(@, [pc |-> IF tracking THEN "session" ELSE "resume",
                                    uuid |-> data.uuid,
                                    currentPath |-> currentPath,
                                    currentTitle |-> currentTitle,
                                    utms |-> utms]),
               !.frame = Frame(IF create THEN "create" ELSE "continue",
                               stored, utms)]

initializeTracker(S, E) ==
    IF S.isInitialized THEN [S EXCEPT !.frame = Frame("noop", NULL, EMPTY)]
    ELSE IF ~checkConsent(S, E)
    THEN [S EXCEPT !.consentGiven = FALSE,
                   !.pendingInitialization = TRUE,
                   !.frame = Frame("blocked", NULL, EMPTY)]
    ELSE LET stored == getStoredData(S.localStorage, E.mode)
             utms == extractUTMsFromURL(E.location.search)
             currentPath == currentPathOf(E.location)
             currentTitle == E.title
             create == \/ ~isValidTrackerData(stored)
                       \/ shouldStartNewSession(stored.last_updated, E.now)
             fbp == getFbpCookie(E.cookie)
             data == captureFbp(
                        IF create
                        THEN newSessionRecord(stored, generateUUID(S.uuids), E.now,
                                              currentPath, currentTitle, utms)
                        ELSE continuedSessionRecord(stored, E.now, currentPath,
                                                    currentTitle, utms),
                        fbp)
             tracking == E.config.enablePageViewTracking
         IN [S EXCEPT
               !.consentGiven = TRUE,
               !.trackerData = data,
               !.uuids = IF create THEN generateUUID(@) ELSE @,
               !.localStorage = saveStoredData(@, E.mode, data),
               !.requests = IF tracking
                            THEN Append(@, sessionRequest(data, fbp)) ELSE @,
               !.tasks = Append(@, [pc |-> IF tracking THEN "session" ELSE "resume",
                                    uuid |-> data.uuid,
                                    currentPath |-> currentPath,
                                    currentTitle |-> currentTitle,
                                    utms |-> utms]),
               !.frame = Frame(IF create THEN "create" ELSE "continue",
                               stored, utms)]

\* the API answers the session request of task i
answered(S, i, outcome) ==
    IF outcome \in HttpSuccess
    THEN [S EXCEPT !.acknowledged = @ \cup {S.tasks[i].uuid}] ELSE S

removeTask(ts, i) == SubSeq(ts, 1, i - 1) \o SubSeq(ts, i + 1, Len(ts))

\* initializeTracker from "Initialize DOM interactions" to its end
finishInitialization(S, E) ==
    LET fbp == getFbpCookie(E.cookie)
    IN [S EXCEPT
          !.links = decorateLinks(@, S.trackerData, fbp, E.config),
          !.elements = populateUTMFields(@, S.trackerData, fbp, E.config),
          !.observers = @ + 1,
          !.isInitialized = TRUE,
          !.lmvTrackerData = S.trackerData]

\* variant of afterSession that gives up the initialization when Call 1 failed
afterSessionAbortsOnFailure(S, E, i, sessionCreated) ==
    LET t == S.tasks[i]
    IN IF ~sessionCreated
       THEN [S EXCEPT !.tasks = removeTask(@, i), !.frame = NoFrame]
       ELSE IF E.config.enablePageViewTracking /\ S.trackerData # NULL
       THEN [S EXCEPT
               !.requests = Append(@, pageViewRequest(S.trackerData,
                                t.currentPath, t.currentTitle, t.utms,
                                getFbpCookie(E.cookie))),
               !.tasks[i].pc = "event",
               !.frame = NoFrame]
       ELSE finishInitialization(
               [S EXCEPT !.tasks = removeTask(@, i), !.frame = NoFrame], E)

\* variant of afterSession that logs the page view whatever Call 1 returned
afterSessionAlways(S, E, i, sessionCreated) ==
    LET t == S.tasks[i]
    IN IF E.config.enablePageViewTracking /\ S.trackerData # NULL
       THEN [S EXCEPT
               !.requests = Append(@, pageViewRequest(S.trackerData,
                                t.currentPath, t.currentTitle, t.utms,
                                getFbpCookie(E.cookie))),
               !.tasks[i].pc = "event",
               !.frame = NoFrame]
       ELSE finishInitialization(
               [S EXCEPT !.tasks = removeTask(@, i), !.frame = NoFrame], E)

\* task i resumes with the value of createOrUpdateSession; logPageViewEvent
\* reads the trackerData of that moment, and a null one makes it return false
afterSession(S, E, i, sessionCreated) ==
    LET t == S.tasks[i]
    IN IF sessionCreated /\ E.config.enablePageViewTracking
          /\ S.trackerData # NULL
       THEN [S EXCEPT
               !.requests = Append(@, pageViewRequest(S.trackerData,
                                t.currentPath, t.currentTitle, t.utms,
                                getFbpCookie(E.cookie))),
               !.tasks[i].pc = "event",
               !.frame = NoFrame]
       ELSE finishInitialization(
               [S EXCEPT !.tasks = removeTask(@, i), !.frame = NoFrame], E)

\* task i resumes after logPageViewEvent
afterPageView(S, E, i) ==
    finishInitialization(
        [S EXCEPT !.tasks = removeTask(@, i), !.frame = NoFrame], E)

giveConsent(S, E) ==
    LET S1 == [S EXCEPT
                 !.consentGiven = TRUE,
                 !.localStorage = setItem(@, E.mode, consentStorageKey, "true"),
                 !.frame = NoFrame]
    IN IF S1.pendingInitialization /\ ~S1.isInitialized
       THEN initializeTracker(S1, E) ELSE S1

\* variant of revokeConsent that forgets the tracking record in storage
revokeConsentKeepsRecord(S, E) ==
    [S EXCEPT
       !.consentGiven = FALSE,
       !.localStorage = IF removeItemThrows(E.mode) THEN @
                        ELSE removeItem(@, consentStorageKey),
       !.trackerData = NULL,
       !.isInitialized = FALSE,
       !.lmvTrackerData = NULL,
       !.frame = NoFrame]

revokeConsent(S, E) ==
    [S EXCEPT
       !.consentGiven = FALSE,
       !.localStorage = IF removeItemThrows(E.mode) THEN @
                        ELSE removeItem(removeItem(@, consentStorageKey),
                                        STORAGE_KEY),
       !.trackerData = NULL,
       !.isInitialized = FALSE,
       !.lmvTrackerData = NULL,
       !.frame = NoFrame]

\* window.lmvTracker.refreshLinks and window.lmvTracker.refreshFields
refreshLinks(S, E) ==
    [S EXCEPT
       !.links = decorateLinks(@, S.trackerData, getFbpCookie(E.cookie), E.config),
       !.frame = NoFrame]

refreshFields(S, E) ==
    [S EXCEPT
       !.elements = populateUTMFields(@, S.trackerData, getFbpCookie(E.cookie),
                                      E.config),
       !.frame = NoFrame]

-----------------------------------------------------------------------------
(* The change watcher.  A batch is the sequence of nodes that one delivery   *)
(* of mutation records reports as added.  A node is [links, elements,        *)
(* childLinks, childElements]: links and elements hold the node itself when  *)
(* it is an anchor or a form control (and are empty otherwise), childLinks   *)
(* and childElements hold the anchors and controls among its descendants.    *)

RECURSIVE flatten(_, _)
flatten(batch, field) ==
    IF batch = <<>> THEN <<>>
    ELSE Head(batch)[field] \o flatten(Tail(batch), field)

\* node.querySelectorAll(selector of decorateLinks).length > 0, for some node
linksDetected(batch) ==
    \E n \in DOMAIN batch : \E j \in DOMAIN batch[n].childLinks :
        batch[n].childLinks[j].sel

\* node.querySelectorAll('#utm_source,...').length > 0 or node.querySelectorAll
\* ('#fbp').length > 0, for some node
fieldsDetected(batch) ==
    \E n \in DOMAIN batch : \E j \in DOMAIN batch[n].childElements :
        batch[n].childElements[j].id \in Range(UTM_FIELDS) \cup {"fbp"}

\* clearTimeout(id)
clearTimeout(pending, id) == {t \in pending : t.id # id}

\* variant of observerCallback that does not cancel the pending timer
observerCallbackNoCancel(S, E, batch) ==
    LET shouldDecorate == E.config.enableLinkDecoration /\ linksDetected(batch)
        shouldPopulate == E.config.enableFormPopulation /\ fieldsDetected(batch)
    IN IF shouldDecorate \/ shouldPopulate
       THEN [S EXCEPT
               !.timers = @ \cup {[id |-> S.lmvTrackerTimeout + 1,
                                   shouldDecorate |-> shouldDecorate,
                                   shouldPopulate |-> shouldPopulate]},
               !.lmvTrackerTimeout = @ + 1]
       ELSE S

\* the callback of one MutationObserver for one batch; setTimeout returns an
\* identifier greater than every earlier one
observerCallback(S, E, batch) ==
    LET shouldDecorate == E.config.enableLinkDecoration /\ linksDetected(batch)
        shouldPopulate == E.config.enableFormPopulation /\ fieldsDetected(batch)
    IN IF shouldDecorate \/ shouldPopulate
       THEN [S EXCEPT
               !.timers = clearTimeout(@, S.lmvTrackerTimeout)
                             \cup {[id |-> S.lmvTrackerTimeout + 1,
                                    shouldDecorate |-> shouldDecorate,
                                    shouldPopulate |-> shouldPopulate]},
               !.lmvTrackerTimeout = @ + 1]
       ELSE S

RECURSIVE runObservers(_, _, _, _)
runObservers(S, E, batch, n) ==
    IF n = 0 THEN S
    ELSE runObservers(observerCallback(S, E, batch), E, batch, n - 1)

\* the host page inserts the nodes of a batch; every armed observer is then
\* called with it
mutationBatch(S, E, batch) ==
    runObservers(
        [S EXCEPT
           !.links = @ \o flatten(batch, "links") \o flatten(batch, "childLinks"),
           !.elements = @ \o flatten(batch, "elements")
                          \o flatten(batch, "childElements"),
           !.batches = @ + 1,
           !.frame = NoFrame],
        E, batch, S.observers)

\* the setTimeout callback of timer t runs
timeoutCallback(S, E, t) ==
    LET fbp == getFbpCookie(E.cookie)
    IN [S EXCEPT
          !.timers = @ \ {t},
          !.links = IF t.shouldDecorate
                    THEN decorateLinks(@, S.trackerData, fbp, E.config) ELSE @,
          !.elements = IF t.shouldPopulate
                       THEN populateUTMFields(@, S.trackerData, fbp, E.config)
                       ELSE @,
          !.frame = NoFrame]

\* window.lmvTracker.getSessionData and window.lmvTracker.hasConsent
getSessionData(S) == S.trackerData
hasConsent(S) == S.consentGiven

-----------------------------------------------------------------------------
(* Inputs: the pages a visitor loads, the cookie jars, the clock steps *)

Pages ==
    { [pathname |-> "/", search |-> <<>>, title |-> "Home"],
      [pathname |-> "/promo", title |-> "Promo",
       search |-> << <<"utm_source", <<"x">>>>, <<"utm_term", <<"t">>>> >>],
      [pathname |-> "/lp", title |-> "Landing",
       search |-> << <<"utm_source", <<" ", "y", " ">>>>,
                     <<"utm_medium", <<"m">>>>,
                     <<"ref", <<"z">>>>,
                     <<"utm_term", <<" ">>>>,
                     <<"utm_campaign", <<>>>>,
                     <<"fbp", <<"u">>>> >>] }

CookieJars ==
    { <<>>, << <<"_ga", <<"g">>>>, <<"_fbp", <<"f">>>> >> }

Deltas ==
    {SESSION_TIMEOUT_MS - 1, SESSION_TIMEOUT_MS, SESSION_TIMEOUT_MS + 1}

\* the document every page starts with
InitialLinks ==
    << [sel |-> TRUE, host |-> "target", valid |-> TRUE,
        query |-> << <<"utm_source", <<"k">>>> >>],
       [sel |-> TRUE, host |-> "target", valid |-> TRUE,
        query |-> << <<"uuid", 0>> >>],
       [sel |-> TRUE, host |-> "payment", valid |-> TRUE, query |-> <<>>],
       [sel |-> TRUE, host |-> "other", valid |-> TRUE, query |-> <<>>],
       [sel |-> TRUE, host |-> "payment", valid |-> TRUE,
        query |-> << <<"client_reference_id", 0>> >>],
       \* http://paymentDomain/...: the host matches, the selector does not
       [sel |-> FALSE, host |-> "payment", valid |-> TRUE, query |-> <<>>],
       \* HTTPS://TargetDomain/... or a relative href on the target domain
       [sel |-> FALSE, host |-> "target", valid |-> TRUE, query |-> <<>>],
       \* an href with the target domain in it that new URL() rejects
       [sel |-> TRUE, host |-> "none", valid |-> FALSE, query |-> <<>>],
       [sel |-> TRUE, host |-> "target", valid |-> TRUE,
        query |-> << <<"uuid", 0>>, <<"utm_source", <<"k">>>> >>],
       [sel |-> TRUE, host |-> "target", valid |-> TRUE, query |-> <<>>] >>

InitialElements ==
    << [id |-> "utm_source", tagName |-> "INPUT", type |-> "text",
        value |-> <<"o">>, options |-> <<>>],
       [id |-> "utm_medium", tagName |-> "SELECT", type |-> "select-one",
        value |-> <<>>,
        options |-> << [value |-> <<>>, text |-> <<>>],
                       [value |-> <<"1">>, text |-> <<"m">>] >>],
       [id |-> "utm_source", tagName |-> "TEXTAREA", type |-> "textarea",
        value |-> <<>>, options |-> <<>>],
       [id |-> "fbp", tagName |-> "INPUT", type |-> "hidden",
        value |-> <<>>, options |-> <<>>],
       [id |-> "utm_source", tagName |-> "INPUT", type |-> "email",
        value |-> <<"e">>, options |-> <<>>],
       [id |-> "utm_campaign", tagName |-> "INPUT", type |-> "text",
        value |-> <<"c">>, options |-> <<>>],
       [id |-> "utm_term", tagName |-> "SELECT", type |-> "select-one",
        value |-> <<"a">>,
        options |-> << [value |-> <<"a">>, text |-> <<"A">>],
                       [value |-> <<"b">>, text |-> <<"B">>] >>] >>

\* nodes a host page inserts: anchors and controls on their own or inside a
\* container
NewTargetLink ==
    [sel |-> TRUE, host |-> "target", valid |-> TRUE, query |-> <<>>]
NewPaymentLink ==
    [sel |-> TRUE, host |-> "payment", valid |-> TRUE, query |-> <<>>]
NewField ==
    [id |-> "utm_source", tagName |-> "INPUT", type |-> "hidden",
     value |-> <<>>, options |-> <<>>]
NewOther ==
    [id |-> "email", tagName |-> "INPUT", type |-> "text",
     value |-> <<>>, options |-> <<>>]

Node(ls, es, cls, ces) ==
    [links |-> ls, elements |-> es, childLinks |-> cls, childElements |-> ces]

ContainerWithLink == Node(<<>>, <<>>, <<NewTargetLink>>, <<>>)
BareLink == Node(<<NewPaymentLink>>, <<>>, <<>>, <<>>)
ContainerWithField == Node(<<>>, <<>>, <<>>, <<NewField>>)
BareField == Node(<<>>, <<NewField>>, <<>>, <<>>)
ContainerWithOther == Node(<<>>, <<>>, <<>>, <<NewOther>>)

Batches ==
    { <<ContainerWithLink>>, <<BareLink>>, <<ContainerWithField>>,
      <<BareField>>, <<ContainerWithOther>>,
      <<ContainerWithLink, ContainerWithField>> }

-----------------------------------------------------------------------------
(* State, environment and the actions *)

Cur ==
    [localStorage |-> localStorage, trackerData |-> trackerData,
     isInitialized |-> isInitialized, consentGiven |-> consentGiven,
     pendingInitialization |-> pendingInitialization,
     lmvTrackerData |-> lmvTrackerData, uuids |-> uuids, tasks |-> tasks,
     requests |-> requests, links |-> links, elements |-> elements,
     observers |-> observers, acknowledged |-> acknowledged,
     timers |-> timers,
     lmvTrackerTimeout |-> lmvTrackerTimeout, batches |-> batches,
     frame |-> NoFrame]

\* the state of a freshly loaded script: the module-level initialisers
Fresh ==
    [Cur EXCEPT !.trackerData = NULL, !.isInitialized = FALSE,
                !.consentGiven = FALSE, !.pendingInitialization = FALSE,
                !.lmvTrackerData = NULL, !.tasks = <<>>, !.requests = <<>>,
                !.links = InitialLinks, !.elements = InitialElements,
                !.observers = 0, !.acknowledged = {}, !.timers = {}, !.lmvTrackerTimeout = 0,
                !.batches = 0]

Env ==
    [now |-> now, location |-> location, title |-> title, cookie |-> cookie,
     mode |-> storageMode, config |-> config]

ApplyOutcome(S, op, outcome) ==
    /\ localStorage' = S.localStorage
    /\ trackerData' = S.trackerData
    /\ isInitialized' = S.isInitialized
    /\ consentGiven' = S.consentGiven
    /\ pendingInitialization' = S.pendingInitialization
    /\ lmvTrackerData' = S.lmvTrackerData
    /\ uuids' = S.uuids
    /\ tasks' = S.tasks
    /\ requests' = S.requests
    /\ links' = S.links
    /\ elements' = S.elements
    /\ observers' = S.observers
    /\ acknowledged' = S.acknowledged
    /\ timers' = S.timers
    /\ lmvTrackerTimeout' = S.lmvTrackerTimeout
    /\ batches' = S.batches
    /\ last' = [op |-> op, init |-> S.frame.init, stored |-> S.frame.stored,
                utms |-> S.frame.utms, outcome |-> outcome]

Apply(S, op) == ApplyOutcome(S, op, "none")

envVars == <<now, location, title, cookie, storageMode, config>>

\* a navigation: a new document and script, then initialize()
PageLoadIn(deltas, pages, jars, modes) ==
    /\ loads < MaxLoads
    /\ \E d \in deltas, pg \in pages, jar \in jars, m \in modes :
          LET E == [now |-> now + d,
                    location |-> [pathname |-> pg.pathname, search |-> pg.search],
                    title |-> pg.title, cookie |-> jar, mode |-> m,
                    config |-> config]
          IN /\ now' = E.now
             /\ location' = E.location
             /\ title' = E.title
             /\ cookie' = E.cookie
             /\ storageMode' = E.mode
             /\ Apply(initializeTracker(Fresh, E), "pageLoad")
    /\ loads' = loads + 1
    /\ calls' = 0
    /\ UNCHANGED config

PageLoad == PageLoadIn(Deltas, Pages, CookieJars, {"ok"})

\* the fetch of POST /sessions settles
SessionResponse ==
    /\ \E i \in DOMAIN tasks, outcome \in ResponseOutcomes :
          /\ tasks[i].pc = "session"
          /\ ApplyOutcome(
                afterSession(answered(Cur, i, outcome), Env, i, apiResult(outcome)),
                "sessionResponse", outcome)
    /\ UNCHANGED <<envVars, loads, calls>>

\* the fetch of POST /sessions/{uuid}/events settles
EventResponse ==
    /\ \E i \in DOMAIN tasks :
          /\ tasks[i].pc = "event"
          /\ Apply(afterPageView(Cur, Env, i), "eventResponse")
    /\ UNCHANGED <<envVars, loads, calls>>

\* host-script calls of window.lmvTracker, on a loaded page
CanCall == loads >= 1 /\ calls < MaxCalls

GiveConsent ==
    /\ CanCall
    /\ Len(tasks) < MaxTasks
    /\ Apply(giveConsent(Cur, Env), "giveConsent")
    /\ calls' = calls + 1
    /\ UNCHANGED <<envVars, loads>>

RevokeConsent ==
    /\ CanCall
    /\ Apply(revokeConsent(Cur, Env), "revokeConsent")
    /\ calls' = calls + 1
    /\ UNCHANGED <<envVars, loads>>

Reinitialize ==
    /\ CanCall
    /\ Len(tasks) < MaxTasks
    /\ Apply(initializeTracker(Cur, Env), "reinitialize")
    /\ calls' = calls + 1
    /\ UNCHANGED <<envVars, loads>>

RefreshLinks ==
    /\ CanCall
    /\ Apply(refreshLinks(Cur, Env), "refreshLinks")
    /\ calls' = calls + 1
    /\ UNCHANGED <<envVars, loads>>

RefreshFields ==
    /\ CanCall
    /\ Apply(refreshFields(Cur, Env), "refreshFields")
    /\ calls' = calls + 1
    /\ UNCHANGED <<envVars, loads>>

\* the host page changes the document; the observers are notified
MutationBatch ==
    /\ loads >= 1
    /\ batches < MaxBatches
    /\ \E batch \in Batches : Apply(mutationBatch(Cur, Env, batch), "mutation")
    /\ UNCHANGED <<envVars, loads, calls>>

\* the quiet period of a pending timer is over
TimerFires ==
    /\ \E t \in timers : Apply(timeoutCallback(Cur, Env, t), "timer")
    /\ UNCHANGED <<envVars, loads, calls>>

BlankStorage == EMPTY
CorruptStorage == [k \in {STORAGE_KEY} |-> [text |-> "garbage"]]
ConsentStored(v) == [k \in {consentStorageKey} |-> v]

InitWith(cfgs, stores) ==
    /\ now = 1
    /\ location = [pathname |-> "", search |-> <<>>]
    /\ title = ""
    /\ cookie = <<>>
    /\ storageMode = "ok"
    /\ config \in cfgs
    /\ localStorage \in stores
    /\ trackerData = NULL
    /\ isInitialized = FALSE
    /\ consentGiven = FALSE
    /\ pendingInitialization = FALSE
    /\ lmvTrackerData = NULL
    /\ uuids = 0
    /\ tasks = <<>>
    /\ requests = <<>>
    /\ links = <<>>
    /\ elements = <<>>
    /\ observers = 0
    /\ acknowledged = {}
    /\ timers = {}
    /\ lmvTrackerTimeout = 0
    /\ batches = 0
    /\ loads = 0
    /\ calls = 0
    /\ last = [op |-> "none", init |-> "none", stored |-> NULL, utms |-> EMPTY,
               outcome |-> "none"]

Init == InitWith({DefaultConfig}, {BlankStorage, CorruptStorage})

Next == PageLoad \/ SessionResponse \/ EventResponse

Spec == Init /\ [][Next]_vars

\* the tracker configured with requireConsent: true, on storage that may
\* refuse writes (quota) or every access (denied)
ConsentConfig == [DefaultConfig EXCEPT !.requireConsent = TRUE]

ConsentPages == {pg \in Pages : pg.title = "Promo"}

ConsentDeltas == {SESSION_TIMEOUT_MS - 1}

ConsentPageLoad ==
    PageLoadIn(ConsentDeltas, ConsentPages, {<<>>}, {"ok", "quota", "denied"})

InitConsent ==
    InitWith({ConsentConfig},
             {BlankStorage, ConsentStored("true"), ConsentStored("false")})

NextConsent ==
    \/ ConsentPageLoad
    \/ SessionResponse
    \/ EventResponse
    \/ GiveConsent
    \/ RevokeConsent
    \/ Reinitialize

SpecConsent == InitConsent /\ [][NextConsent]_vars

\* the tracker with its default configuration on pages whose host script
\* calls refreshLinks() and refreshFields()
DomDeltas == {SESSION_TIMEOUT_MS - 1, SESSION_TIMEOUT_MS + 1}

DomPageLoad == PageLoadIn(DomDeltas, Pages, CookieJars, {"ok"})

InitDom == InitWith({DefaultConfig}, {BlankStorage})

NextDom ==
    \/ DomPageLoad
    \/ SessionResponse
    \/ EventResponse
    \/ RefreshLinks
    \/ RefreshFields

SpecDom == InitDom /\ [][NextDom]_vars

\* query strings of up to MaxParams parameters, with recognized and other
\* names, repeated names, and empty, blank, plain and padded values
QueryNames == {"utm_source", "fbp", "ref"}
QueryValues == { <<>>, <<" ">>, <<"x">>, <<" ", "y", " ">> }

RECURSIVE Queries(_)
Queries(n) ==
    IF n = 0 THEN { <<>> }
    ELSE Queries(n - 1)
            \cup { Append(q, <<k, v>>) :
                      q \in {p \in Queries(n - 1) : Len(p) = n - 1},
                      k \in QueryNames, v \in QueryValues }

QueryPages ==
    { [pathname |-> "/q", search |-> q, title |-> "Query"] :
         q \in Queries(MaxParams) }

\* the first load of the tracker, on a page reached with any of these queries
QueryPageLoad ==
    /\ loads = 0
    /\ PageLoadIn(ConsentDeltas, QueryPages, {<<>>}, {"ok"})

InitQuery == InitWith({DefaultConfig}, {BlankStorage})

NextQuery == QueryPageLoad \/ SessionResponse \/ EventResponse

SpecQuery == InitQuery /\ [][NextQuery]_vars

\* the tracker with its default configuration on storage that may hold an
\* unparsable item and may refuse writes (quota) or every access (denied)
StoragePageLoad ==
    PageLoadIn(ConsentDeltas, ConsentPages, {<<>>}, {"ok", "quota", "denied"})

InitStorage == InitWith({DefaultConfig}, {BlankStorage, CorruptStorage})

NextStorage == StoragePageLoad \/ SessionResponse \/ EventResponse

SpecStorage == InitStorage /\ [][NextStorage]_vars

\* the tracker with its default configuration on a page whose host script
\* inserts content
WatchPageLoad ==
    PageLoadIn(ConsentDeltas, ConsentPages, {<<>>}, {"ok"})

InitWatch == InitWith({DefaultConfig}, {BlankStorage})

NextWatch ==
    \/ WatchPageLoad
    \/ SessionResponse
    \/ EventResponse
    \/ MutationBatch
    \/ TimerFires

SpecWatch == InitWatch /\ [][NextWatch]_vars

-----------------------------------------------------------------------------
(* Vocabulary of the properties *)

UtmKeys == Range(UTM_FIELDS)

\* the record a later page load would read back from storage
Persisted == getStoredData(localStorage, "ok")

\* the latest step was an initializeTracker call that got past the consent gate
InitRan == last.init \in {"create", "continue"}

\* ... and it had read a Valid record from storage
StoredValid == InitRan /\ isValidTrackerData(last.stored)

\* now - last_updated of the record it read
StoredAge == now - last.stored.last_updated

-----------------------------------------------------------------------------
(* Session lifecycle *)

\* C1: a load that finds a Valid record older than the timeout produces and
\* persists a record whose identifier differs from the stored one.
C1_ExpiredLoadGetsNewId ==
    (StoredValid /\ StoredAge > SESSION_TIMEOUT_MS)
        => /\ trackerData.uuid # last.stored.uuid
           /\ Persisted # NULL /\ Persisted.uuid # last.stored.uuid

\* C2: a load that finds a Valid record younger than the timeout keeps its
\* uuid and created_at, sets last_updated to now and page_views to the stored
\* page_views + 1, and persists that record.
C2_ContinueKeepsSession ==
    (StoredValid /\ StoredAge < SESSION_TIMEOUT_MS)
        => /\ trackerData.uuid = last.stored.uuid
           /\ trackerData.created_at = last.stored.created_at
           /\ trackerData.last_updated = now
           /\ trackerData.page_views = last.stored.page_views + 1
           /\ Persisted = trackerData

C2_Witness ==
    /\ StoredValid
    /\ StoredAge = SESSION_TIMEOUT_MS - 1
    /\ last.init = "continue"
    /\ trackerData.page_views = 3

\* C3: every load that takes the create branch, with no Valid record or with
\* an Expired one, persists created_at = last_updated = now and page_views = 1.
C3_CreateResetsRecord ==
    (last.init = "create")
        => /\ Persisted # NULL
           /\ Persisted.created_at = now
           /\ Persisted.last_updated = now
           /\ Persisted.page_views = 1

\* C4: merge law.  When a load continues a session and the URL supplies a
\* non-empty set U of recognized parameters, every key of U takes the URL
\* value and every stored key outside U keeps its stored value.
C4_MergeLaw ==
    (last.init = "continue" /\ DOMAIN last.utms # {})
        => \A k \in UtmKeys :
              /\ k \in DOMAIN last.utms
                    => Has(trackerData, k) /\ trackerData[k] = last.utms[k]
              /\ (k \in DOMAIN last.stored /\ k \notin DOMAIN last.utms)
                    => Has(trackerData, k) /\ trackerData[k] = last.stored[k]
              /\ Has(Persisted, k) = Has(trackerData, k)
              /\ Has(Persisted, k) => Persisted[k] = trackerData[k]

\* stored {utm_source, utm_medium, ...}, URL {utm_source: x, utm_term: t}
C4_Witness ==
    /\ last.init = "continue"
    /\ DOMAIN last.utms = {"utm_source", "utm_term"}
    /\ Has(last.stored, "utm_medium")
    /\ Has(last.stored, "utm_source") /\ last.stored.utm_source = <<"y">>
    /\ trackerData.utm_source = <<"x">>
    /\ trackerData.utm_medium = <<"m">>

\* C5 as stated: a UTM field of the stored record keeps its value through a
\* load whose URL does not supply it, and a URL with no recognized parameter
\* changes no UTM field at all.
C5_NoParamsChangesNothing ==
    StoredValid
        => \A k \in UtmKeys :
              /\ (Has(last.stored, k) /\ k \notin DOMAIN last.utms)
                    => Has(Persisted, k) /\ Persisted[k] = last.stored[k]
              /\ (DOMAIN last.utms = {})
                    => /\ Has(Persisted, k) = Has(last.stored, k)
                       /\ Has(Persisted, k) => Persisted[k] = last.stored[k]

\* C5, amended: a UTM field of the stored record keeps its value through
\* every load (continue or create after expiry) whose URL does not supply
\* it; a URL with no recognized parameter changes no field the record has,
\* and the only field it can add is fbp, taken from the _fbp cookie.
C5_StoredUtmFieldsSticky ==
    StoredValid
        => \A k \in UtmKeys :
              /\ (Has(last.stored, k) /\ k \notin DOMAIN last.utms)
                    => /\ Has(Persisted, k) /\ Persisted[k] = last.stored[k]
                       /\ Has(trackerData, k) /\ trackerData[k] = last.stored[k]
              /\ (DOMAIN last.utms = {} /\ ~Has(last.stored, k)
                    /\ Has(Persisted, k))
                    => k = "fbp" /\ Persisted[k] = getFbpCookie(cookie)

\* a record with utm fields read back after expiry by a URL without parameters
C5_Witness ==
    /\ StoredValid
    /\ last.init = "create"
    /\ DOMAIN last.utms = {}
    /\ Has(last.stored, "utm_medium")
    /\ Has(last.stored, "utm_term")
    /\ Has(Persisted, "utm_medium")

\* C6 as stated: after a create caused by an Expired record, each UTM field of
\* the new record is the URL value if the URL supplies the key, and otherwise
\* the expired record's value for that key.
C6_ExpiredCreateUtmFields ==
    (StoredValid /\ last.init = "create")
        => \A k \in UtmKeys :
              Has(Persisted, k)
                 => IF k \in DOMAIN last.utms
                    THEN Persisted[k] = last.utms[k]
                    ELSE Has(last.stored, k) /\ Persisted[k] = last.stored[k]

\* C6, amended: each UTM field of the new record is the URL value if the URL
\* supplies the key, otherwise the expired record's value if it has one, and
\* otherwise it is fbp with the value of the _fbp cookie; every field of the
\* URL and of the expired record is present.
C6_ExpiredCreateUtmFieldsOrCookie ==
    (StoredValid /\ last.init = "create")
        => \A k \in UtmKeys :
              /\ Has(Persisted, k)
                    => IF k \in DOMAIN last.utms
                       THEN Persisted[k] = last.utms[k]
                       ELSE IF Has(last.stored, k)
                       THEN Persisted[k] = last.stored[k]
                       ELSE k = "fbp" /\ Persisted[k] = getFbpCookie(cookie)
              /\ (k \in DOMAIN last.utms \/ Has(last.stored, k))
                    => Has(Persisted, k)

\* expired {utm_source: y, utm_medium: m, ...}, URL {utm_source: x, utm_term: t}
C6_Witness ==
    /\ StoredValid
    /\ last.init = "create"
    /\ StoredAge > SESSION_TIMEOUT_MS
    /\ Has(last.stored, "utm_source") /\ last.stored.utm_source = <<"y">>
    /\ Has(last.stored, "utm_medium")
    /\ DOMAIN last.utms = {"utm_source", "utm_term"}
    /\ Persisted.utm_source = <<"x">>
    /\ Persisted.utm_medium = <<"m">>

\* C7: after every load that passes the consent gate, in the create branch
\* and in the continue branch, the persisted current_path and current_title
\* are those of that load.
C7_PathAndTitleOfThisLoad ==
    InitRan
        => /\ Persisted # NULL
           /\ Persisted.current_path = currentPathOf(location)
           /\ Persisted.current_title = title

\* C8: every persisted record (and the in-memory one) has
\* created_at <= last_updated, the clock never running backwards.
C8_CreatedNotAfterUpdated ==
    /\ Persisted # NULL => Persisted.created_at <= Persisted.last_updated
    /\ trackerData # NULL => trackerData.created_at <= trackerData.last_updated

\* a record created, continued, then read back Expired and persisted again
C8_Witness ==
    /\ StoredValid
    /\ last.init = "create"
    /\ Persisted # NULL
    /\ Persisted.created_at < Persisted.last_updated

-----------------------------------------------------------------------------
(* Consent gate *)

StoredConsentIsTrue ==
    Has(localStorage, consentStorageKey)
        /\ localStorage[consentStorageKey] = "true"

\* the latest step called initializeTracker and it reached the consent gate
GateChecked == last.init \in {"blocked", "create", "continue"}

TrackerItem == IF Has(localStorage, STORAGE_KEY)
               THEN <<localStorage[STORAGE_KEY]>> ELSE <<>>

\* C9: with requireConsent and a stored consent value other than 'true', an
\* initialization attempt creates no record in memory or in storage, issues
\* no request and leaves hasConsent() false.
C9_NoConsentNoTracking ==
    [][(config.requireConsent /\ GateChecked' /\ ~StoredConsentIsTrue')
          => /\ last'.init = "blocked"
             /\ consentGiven' = FALSE
             /\ TrackerItem' = TrackerItem
             /\ IF last'.op = "pageLoad"
                THEN trackerData' = NULL /\ requests' = <<>> /\ tasks' = <<>>
                ELSE /\ trackerData' = trackerData
                     /\ requests' = requests
                     /\ tasks' = tasks]_vars

\* a page that finds the consent key set to 'false', asked to reinitialize
C9_Witness ==
    /\ config.requireConsent
    /\ last.op = "reinitialize"
    /\ last.init = "blocked"
    /\ Has(localStorage, consentStorageKey)
    /\ localStorage[consentStorageKey] = "false"
    /\ storageMode = "ok"
    /\ ~consentGiven
    /\ trackerData = NULL
    /\ Persisted = NULL
    /\ requests = <<>>

\* C10 (its first half; the rest is what happens later to the same task):
\* when giveConsent() finds an initialization deferred for missing consent,
\* it runs it, and the tracking record is created and persisted.
C10_GiveConsentRunsDeferredInit ==
    (last.op = "giveConsent" /\ last.init # "none")
        => /\ InitRan
           /\ trackerData # NULL
           /\ storageMode = "ok" => Persisted = trackerData

\* what the code does guarantee: the deferred initialization runs whenever
\* the write of the consent sentinel went through
C10_RunsWhenSentinelStored ==
    (last.op = "giveConsent" /\ last.init # "none" /\ storageMode = "ok")
        => InitRan /\ trackerData # NULL /\ Persisted = trackerData

\* C11 as stated: after revokeConsent() returns, the consent key and the
\* tracking-record key are both absent from storage, the in-memory record and
\* window.lmvTrackerData are null, hasConsent() is false and the tracker is
\* marked uninitialized.
C11_RevokeClearsEverything ==
    (last.op = "revokeConsent")
        => /\ ~Has(localStorage, consentStorageKey)
           /\ ~Has(localStorage, STORAGE_KEY)
           /\ getSessionData(Cur) = NULL
           /\ lmvTrackerData = NULL
           /\ ~hasConsent(Cur)
           /\ ~isInitialized

\* C11, amended: the in-memory effects hold after every revokeConsent(); the
\* two keys are absent from storage whenever localStorage.removeItem does not
\* throw.
C11_RevokeClearsUnlessStorageThrows ==
    (last.op = "revokeConsent")
        => /\ getSessionData(Cur) = NULL
           /\ lmvTrackerData = NULL
           /\ ~hasConsent(Cur)
           /\ ~isInitialized
           /\ ~removeItemThrows(storageMode)
                 => /\ ~Has(localStorage, consentStorageKey)
                    /\ ~Has(localStorage, STORAGE_KEY)

\* a page that had created and reported a session, then revoked
C11_Witness ==
    /\ last.op = "revokeConsent"
    /\ storageMode = "ok"
    /\ requests # <<>>
    /\ trackerData = NULL
    /\ ~Has(localStorage, STORAGE_KEY)
    /\ ~Has(localStorage, consentStorageKey)

\* C12: whenever revokeConsent() is followed by giveConsent(), whether or not
\* an initialization had been deferred before, the giveConsent() call creates
\* and persists a record with a newly generated identifier.
C12_GiveConsentAfterRevokeStartsSession ==
    [][(last.op = "revokeConsent" /\ last'.op = "giveConsent"
          /\ storageMode = "ok")
          => /\ last'.init = "create"
             /\ uuids' = generateUUID(uuids)
             /\ trackerData' # NULL
             /\ trackerData'.uuid = uuids'
             /\ Persisted' = trackerData']_vars

-----------------------------------------------------------------------------
(* Link decoration *)

fbpNow == getFbpCookie(cookie)

\* decorateLinks has run on this document with the record of this page
DecorationRan ==
    trackerData # NULL /\ (isInitialized \/ last.op = "refreshLinks")

Occurrences(query, key) ==
    Cardinality({i \in DOMAIN query : query[i][1] = key})

DecorationKeys == UtmKeys \cup {"uuid", "client_reference_id"}

\* C13: decorateLinks is idempotent.  On a document it has decorated, with
\* the record and the cookie unchanged, another run leaves every link as it
\* is, and no link carries the uuid key, the reference id or a UTM key more
\* than once.
C13_DecorateLinksIdempotent ==
    DecorationRan
        => /\ decorateLinks(links, trackerData, fbpNow, config) = links
           /\ \A i \in DOMAIN links : \A k \in DecorationKeys :
                 Occurrences(links[i].query, k) <= 1

\* initialization decorated the links, then refreshLinks() ran again
C13_Witness ==
    /\ last.op = "refreshLinks"
    /\ isInitialized
    /\ paramsHas(links[1].query, "uuid")
    /\ paramsHas(links[3].query, "client_reference_id")
    /\ Len(links[10].query) >= 3

\* C14: a target-domain link whose query already has the uuid key is left
\* completely unchanged by every run of decorateLinks, whatever the record
\* holds: no step of a loaded page changes such a link.
C14_DecoratedLinkUntouched ==
    [][(last'.op # "pageLoad")
          => \A i \in DOMAIN links :
                (links[i].host = "target" /\ paramsHas(links[i].query, "uuid"))
                   => /\ i \in DOMAIN links'
                      /\ links'[i] = links[i]]_vars

\* links that carry the identifier 0 of another session, with UTM parameters
\* that differ from the record's, after two runs of decorateLinks
C14_Witness ==
    /\ last.op = "refreshLinks"
    /\ isInitialized
    /\ trackerData.uuid # 0
    /\ TruthyProp(trackerData, "utm_source")
    /\ trackerData.utm_source # <<"k">>
    /\ fbpNow # NoValue
    /\ links[2] = InitialLinks[2]
    /\ links[9] = InitialLinks[9]
    /\ links[1] # InitialLinks[1]

\* link l is the authored link o with the uuid key set to the session id, every
\* UTM field of the record that o lacks added, and o's own pairs kept
DecoratedAsTarget(o, l) ==
    /\ paramsHas(l.query, "uuid")
    /\ paramsGet(l.query, "uuid") = trackerData.uuid
    /\ \A k \in UtmKeys :
          (TruthyProp(trackerData, k) /\ ~paramsHas(o.query, k))
             => paramsHas(l.query, k) /\ paramsGet(l.query, k) = trackerData[k]
    /\ Len(l.query) >= Len(o.query)
    /\ SubSeq(l.query, 1, Len(o.query)) = o.query

\* the scenario of C15: the first load, on empty storage, of
\* /promo?utm_source=x&utm_term=t with no _fbp cookie
FreshPromoScenario ==
    (loads = 1 /\ title = "Promo" /\ cookie = <<>>)
        => /\ {k \in UtmKeys : Has(trackerData, k)} = {"utm_source", "utm_term"}
           /\ trackerData.page_views = 1
           /\ links[10].query = << <<"uuid", trackerData.uuid>>,
                                   <<"utm_source", <<"x">>>>,
                                   <<"utm_term", <<"t">>>> >>

\* C15 as stated: after decorateLinks, every link whose host is the target
\* domain and whose query lacked the uuid key has that key set to the session
\* id and every UTM field of the record its query lacked, and keeps the pairs
\* it had; in the fresh-page scenario the record has exactly the two URL
\* fields and page_views = 1 and a target link gains the id and those two.
C15_TargetLinkGainsIdAndFields ==
    DecorationRan
        => /\ \A i \in DOMAIN InitialLinks :
                 (InitialLinks[i].host = "target"
                     /\ ~paramsHas(InitialLinks[i].query, "uuid"))
                    => DecoratedAsTarget(InitialLinks[i], links[i])
           /\ FreshPromoScenario

\* C15, amended: the same for every such link that the selector of
\* decorateLinks matches (its href attribute contains the target domain).
C15_SelectedTargetLinkGainsIdAndFields ==
    DecorationRan
        => /\ \A i \in DOMAIN InitialLinks :
                 (InitialLinks[i].host = "target" /\ InitialLinks[i].sel
                     /\ ~paramsHas(InitialLinks[i].query, "uuid"))
                    => DecoratedAsTarget(InitialLinks[i], links[i])
           /\ FreshPromoScenario

C15_Witness ==
    /\ isInitialized
    /\ loads = 1 /\ title = "Promo" /\ cookie = <<>>
    /\ Len(links[10].query) = 3
    /\ links[1].query = << <<"utm_source", <<"k">>>>,
                           <<"uuid", trackerData.uuid>>,
                           <<"utm_term", <<"t">>>> >>

\* link l is the authored payment link o with client_reference_id set to the
\* session id if and only if o lacked it, and nothing else added
DecoratedAsPayment(o, l) ==
    IF ~paramsHas(o.query, "client_reference_id")
    THEN l = [o EXCEPT !.query = Append(@, <<"client_reference_id",
                                             trackerData.uuid>>)]
    ELSE l = o

\* C16 as stated: after decorateLinks, every link whose host is the payment
\* domain has client_reference_id set to the session id if and only if its
\* query lacked that key, and has gained no uuid key, UTM field or fbp.
C16_PaymentLinkGetsReferenceId ==
    DecorationRan
        => \A i \in DOMAIN InitialLinks :
              (InitialLinks[i].host = "payment")
                 => DecoratedAsPayment(InitialLinks[i], links[i])

\* C16, amended: the same for every payment-domain link that the selector of
\* decorateLinks matches (its href attribute starts with
\* https://paymentDomain); a payment-domain link it does not match is left
\* as it is.
C16_SelectedPaymentLinkGetsReferenceId ==
    DecorationRan
        => \A i \in DOMAIN InitialLinks :
              (InitialLinks[i].host = "payment")
                 => IF InitialLinks[i].sel
                    THEN DecoratedAsPayment(InitialLinks[i], links[i])
                    ELSE links[i] = InitialLinks[i]

\* one payment link gained the reference id, one kept its own, one written
\* with http:// was passed over
C16_Witness ==
    /\ isInitialized
    /\ links[3].query = << <<"client_reference_id", trackerData.uuid>> >>
    /\ links[5] = InitialLinks[5]
    /\ links[6] = InitialLinks[6]
    /\ TruthyProp(trackerData, "utm_source")
    /\ fbpNow # NoValue

\* C17: a link whose resolved host is neither the target domain nor the
\* payment domain is never modified by decorateLinks, even when the selector
\* matches it because the target domain occurs elsewhere in its href.
C17_ForeignLinkUntouched ==
    \A i \in DOMAIN links :
        (InitialLinks[i].host \notin {"target", "payment"})
           => links[i] = InitialLinks[i]

\* a selected link on another host after two runs that decorated the others
C17_Witness ==
    /\ last.op = "refreshLinks"
    /\ isInitialized
    /\ InitialLinks[4].sel /\ InitialLinks[4].host = "other"
    /\ links[4] = InitialLinks[4]
    /\ links[8] = InitialLinks[8]
    /\ links[10] # InitialLinks[10]

-----------------------------------------------------------------------------
(* Form population *)

\* populateUTMFields has run on this document with the record of this page
PopulationRan ==
    trackerData # NULL /\ (isInitialized \/ last.op = "refreshFields")

\* the type attribute of a control as authored: a textarea has none (its
\* type property reads "textarea"), an input's is what its property reflects
typeAttribute(element) ==
    IF element.tagName = "TEXTAREA" THEN "" ELSE element.type

\* the record has a value for the field the control is named after
FieldHasValue(element) ==
    element.id \in UtmKeys /\ TruthyProp(trackerData, element.id)

\* C18: after populateUTMFields, every input or textarea whose type is empty,
\* "text" or "hidden" and whose id is a recognized field with a value in the
\* record holds exactly that value; inputs and textareas of other types or
\* for fields without a value are unchanged.
C18_TextControlsHoldRecordValue ==
    PopulationRan
        => \A i \in DOMAIN InitialElements :
              LET o == InitialElements[i]
                  texty == /\ o.tagName \in {"INPUT", "TEXTAREA"}
                           /\ typeAttribute(o) \in {"", "text", "hidden"}
              IN /\ (texty /\ FieldHasValue(o))
                       => elements[i].value = trackerData[o.id]
                 /\ (o.tagName \in {"INPUT", "TEXTAREA"}
                       /\ ~(texty /\ FieldHasValue(o)))
                       => elements[i] = o

\* C19: populateUTMFields is idempotent.  On a document it has populated,
\* with the record and the cookie unchanged, another run leaves every control
\* (text controls, textareas and selects) with the value it has.
C19_PopulateIdempotent ==
    PopulationRan
        => populateUTMFields(elements, trackerData, fbpNow, config) = elements

\* initialization populated a text input, a select and the fbp control, then
\* refreshFields() ran again
C19_Witness ==
    /\ last.op = "refreshFields"
    /\ isInitialized
    /\ TruthyProp(trackerData, "utm_source")
    /\ elements[1].value = trackerData.utm_source
    /\ elements[1] # InitialElements[1]
    /\ elements[2].value = <<"1">>
    /\ elements[4].value = <<"f">>

-----------------------------------------------------------------------------
(* Reporting *)

\* outcomes of a fetch in which the server answered with a 2xx status
\* this step issues the page-view request (Call 2)
IssuesPageView ==
    /\ Len(requests') = Len(requests) + 1
    /\ requests'[Len(requests')].kind = "event"

\* C20: the page-view request is issued only in the step in which the session
\* request of that initialization returns an HTTP success; a session request
\* that returns a non-success status or fails in transport is followed by no
\* page-view request.
C20_PageViewOnlyAfterSessionSuccess ==
    [][/\ IssuesPageView
            => /\ last'.op = "sessionResponse"
               /\ last'.outcome \in HttpSuccess
               /\ \E j \in DOMAIN requests :
                     /\ requests[j].kind = "session"
                     /\ requests[j].uuid = requests'[Len(requests')].uuid
       /\ (last'.op = "sessionResponse" /\ last'.outcome \notin HttpSuccess)
            => requests' = requests]_vars

\* the session request returned success and the page view was sent
C20_Witness ==
    /\ last.op = "sessionResponse"
    /\ last.outcome = "ok"
    /\ Len(requests) = 2
    /\ requests[1].kind = "session"
    /\ requests[2].kind = "event"
    /\ requests[2].uuid = requests[1].uuid

\* this step settles a reporting call after which nothing is left to await:
\* a session request that did not succeed, or the page-view request (whose
\* result initializeTracker does not read)
ReportingEnds ==
    \/ last'.op = "sessionResponse" /\ last'.outcome # "ok"
    \/ last'.op = "eventResponse"

\* C21: whatever the outcome of the reporting calls, the step that settles
\* them leaves the record as it is, sends nothing again, and the same
\* initialization decorates the links, populates the controls, arms the
\* observer and marks the tracker initialized, with the result a success
\* would have given.
C21_ReportingFailureDoesNotStopInit ==
    [][/\ (last'.op \in {"sessionResponse", "eventResponse"})
            => /\ trackerData' = trackerData
               /\ localStorage' = localStorage
       /\ ReportingEnds
            => /\ requests' = requests
               /\ isInitialized'
               /\ lmvTrackerData' = trackerData
               /\ observers' = observers + 1
               /\ links' = decorateLinks(InitialLinks, trackerData, fbpNow,
                                         config)
               /\ elements' = populateUTMFields(InitialElements, trackerData,
                                                fbpNow, config)]_vars

\* the session request failed in transport; the page is decorated all the same
C21_Witness ==
    /\ last.op = "sessionResponse"
    /\ last.outcome = "error"
    /\ Len(requests) = 1
    /\ isInitialized
    /\ observers = 1
    /\ paramsHas(links[1].query, "uuid")
    /\ TruthyProp(trackerData, "utm_source")
    /\ elements[1].value = trackerData.utm_source

\* C22: reporting does not gate the DOM features.  Once the record is
\* persisted and a reporting call of that initialization is outstanding
\* (it may never settle), decorateLinks and populateUTMFields have already
\* run for that initialization.
C22_DecorationNotGatedByReporting ==
    (tasks # <<>> /\ trackerData # NULL /\ Persisted = trackerData)
        => /\ links = decorateLinks(InitialLinks, trackerData, fbpNow, config)
           /\ elements = populateUTMFields(InitialElements, trackerData,
                                           fbpNow, config)

-----------------------------------------------------------------------------
(* The change watcher *)

\* a scheduled pass that will decorate links / populate fields
DecorationPending(pending) == \E t \in pending : t.shouldDecorate
PopulationPending(pending) == \E t \in pending : t.shouldPopulate

\* the host page has inserted content and no timer is pending any more
Settled == isInitialized /\ batches > 0 /\ timers = {}

\* link l is matched by the decorator and lacks the key its domain receives
Eligible(l) ==
    /\ l.sel /\ l.valid
    /\ \/ l.host = "target" /\ ~paramsHas(l.query, "uuid")
       \/ l.host = "payment" /\ ~paramsHas(l.query, "client_reference_id")

\* the links and elements inserted after the parse of the page
InsertedLinks(ls) == {i \in DOMAIN ls : i > Len(InitialLinks)}
InsertedElements(es) == {i \in DOMAIN es : i > Len(InitialElements)}

\* C23: once the burst of mutations has settled, no link that was inserted
\* inside a container (in Batches these are the target-domain links) is still
\* eligible for decoration, whatever batches the burst was made of.
C23_SettledLinksDecorated ==
    Settled =>
        \A i \in InsertedLinks(links) :
            links[i].host = "target" => ~Eligible(links[i])

\* C24: a batch delivered to an armed watcher leaves a decoration pass
\* scheduled when it inserts an eligible link, and a population pass scheduled
\* when it inserts an element with a recognized id, whether the link or the
\* element is the inserted node itself or one of its descendants.
C24_InsertedContentSchedulesPass ==
    [][(batches' = batches + 1 /\ observers >= 1)
          => /\ (\E i \in InsertedLinks(links') \ InsertedLinks(links) :
                    Eligible(links'[i]))
                  => DecorationPending(timers')
             /\ (\E i \in InsertedElements(elements') \ InsertedElements(elements) :
                    elements'[i].id \in Range(UTM_FIELDS))
                  => PopulationPending(timers')]_vars

\* C25: at most one timer is pending; a batch that schedules a timer leaves
\* that timer as the only one pending (the earlier one is cancelled); the
\* timer that fires is the one the last qualifying batch scheduled, and
\* nothing is pending after it; links and fields of an initialized page change
\* only when a timer fires or content is inserted.
C25_Debounce ==
    [][/\ Cardinality(timers') <= 1
       /\ (batches' = batches + 1 /\ lmvTrackerTimeout' # lmvTrackerTimeout)
            => /\ \A t \in timers' : t.id = lmvTrackerTimeout'
               /\ timers' # {}
       /\ last'.op = "timer"
            => /\ \A t \in timers : t.id = lmvTrackerTimeout
               /\ timers' = {}
       /\ (isInitialized /\ isInitialized' /\ loads' = loads
             /\ batches' = batches /\ last'.op # "timer")
            => links' = links /\ elements' = elements]_vars

\* two qualifying batches of one burst were followed by a single pass
C25_Witness ==
    /\ last.op = "timer"
    /\ batches = 2
    /\ lmvTrackerTimeout = 2
    /\ timers = {}
    /\ \E i \in InsertedLinks(links) : paramsHas(links[i].query, "uuid")

-----------------------------------------------------------------------------
(* Storage failures *)

\* the item under STORAGE_KEY is there and JSON.parse rejects it
Unparsable(ls) == Has(ls, STORAGE_KEY) /\ ~JSONparses(ls[STORAGE_KEY])

\* C26: storage failures never abort initialization.  Every page load
\* produces a record and reports it; when the read fails or the item does not
\* parse the record is a new one (new id, page_views = 1); a failing write
\* leaves storage as it was; and the initialization that then completes has
\* decorated and populated the document with that record.
C26_StorageFailuresDoNotAbort ==
    [][/\ last'.op = "pageLoad"
            => /\ InitRan'
               /\ trackerData' # NULL
               /\ Len(requests') = 1
               /\ requests'[1].kind = "session"
               /\ requests'[1].uuid = trackerData'.uuid
               /\ (getItemThrows(storageMode') \/ Unparsable(localStorage))
                     => /\ last'.init = "create"
                        /\ trackerData'.uuid = generateUUID(uuids)
                        /\ trackerData'.page_views = 1
               /\ setItemThrows(storageMode') => localStorage' = localStorage
       /\ (last'.op \in {"sessionResponse", "eventResponse"} /\ isInitialized')
            => /\ trackerData' = trackerData
               /\ links' = decorateLinks(InitialLinks, trackerData, fbpNow, config)
               /\ elements' = populateUTMFields(InitialElements, trackerData,
                                                fbpNow, config)]_vars

\* storage holds the record of an earlier load and now refuses every access:
\* the load ran with a new record and decorated the links with it
C26_Witness ==
    /\ storageMode = "denied"
    /\ isInitialized
    /\ Persisted # NULL
    /\ Persisted.page_views = 2
    /\ trackerData.uuid # Persisted.uuid
    /\ trackerData.page_views = 1
    /\ paramsGet(links[2].query, "uuid") = 0
    /\ paramsGet(links[10].query, "uuid") = trackerData.uuid

-----------------------------------------------------------------------------
(* UTM extraction *)

\* the names the result may contain and the names the query string has
NamesInPlay == UtmKeys \cup {location.search[i][1] : i \in DOMAIN location.search}
                       \cup DOMAIN last.utms

\* parameter i of the query string has name k and a value that is not empty
\* once trimmed
OccursWithValue(k, i) ==
    /\ location.search[i][1] = k
    /\ trim(location.search[i][2]) # <<>>

\* parameter i is the first one of the query string that has its name
FirstOfItsName(i) ==
    \A j \in 1..(i - 1) : location.search[j][1] # location.search[i][1]

\* C27 as stated: the result has exactly the recognized names that occur with
\* a value non-empty after trimming, each mapped to such a value trimmed, and
\* no other name.
C27_ExtractsEveryNonEmptyRecognized ==
    InitRan =>
        \A k \in NamesInPlay :
            /\ k \in DOMAIN last.utms
                 <=> /\ k \in UtmKeys
                     /\ \E i \in DOMAIN location.search : OccursWithValue(k, i)
            /\ k \in DOMAIN last.utms
                 => \E i \in DOMAIN location.search :
                       /\ OccursWithValue(k, i)
                       /\ last.utms[k] = trim(location.search[i][2])

\* C27 (amended): the result has exactly the recognized names whose first
\* occurrence in the query string has a value non-empty after trimming, each
\* mapped to that value trimmed, and no other name.
C27_ExtractsFirstNonEmptyRecognized ==
    InitRan =>
        \A k \in NamesInPlay :
            /\ k \in DOMAIN last.utms
                 <=> /\ k \in UtmKeys
                     /\ \E i \in DOMAIN location.search :
                           FirstOfItsName(i) /\ OccursWithValue(k, i)
            /\ k \in DOMAIN last.utms
                 => \E i \in DOMAIN location.search :
                       /\ FirstOfItsName(i)
                       /\ OccursWithValue(k, i)
                       /\ last.utms[k] = trim(location.search[i][2])

\* a repeated recognized name whose first value is padded
C27_Witness ==
    /\ InitRan
    /\ location.search = << <<"utm_source", <<" ", "y", " ">>>>,
                            <<"utm_source", <<"x">>>> >>
    /\ DOMAIN last.utms = {"utm_source"}
    /\ last.utms.utm_source = <<"y">>

-----------------------------------------------------------------------------
(* The pixel identifier *)

\* C28: after a load, the fbp field of the record is the one the stored
\* record had or the value of the _fbp cookie; the query string of the page
\* has no part in it.
C28_FbpComesFromCookie ==
    (InitRan /\ TruthyProp(trackerData, "fbp"))
        => \/ trackerData.fbp = fbpNow
           \/ /\ TruthyProp(last.stored, "fbp")
              /\ trackerData.fbp = last.stored.fbp

-----------------------------------------------------------------------------
(* Calls made while the reporting of an initialization is pending *)

\* the initialization of this page has produced its record and is waiting for
\* a reporting call
InitializationPending == tasks # <<>> /\ trackerData # NULL /\ Persisted # NULL

\* C29: a call of reinitialize() or giveConsent() made while the reporting
\* calls of the page's initialization are pending sends no further request and
\* leaves the persisted page_views at the value that initialization wrote.
C29_PageViewsCountedOncePerLoad ==
    [][(InitializationPending /\ last'.op \in {"reinitialize", "giveConsent"})
          => /\ requests' = requests
             /\ Persisted' # NULL
             /\ Persisted'.page_views = Persisted.page_views]_vars

-----------------------------------------------------------------------------
(* Payloads of the two reporting calls *)

\* C30: the page-view event request carries the UTM and pixel fields of the
\* session request that the same initialization sent before it, and every
\* known UTM field of the record is among them.
C30_EventCarriesSessionPayload ==
    \A i \in DOMAIN requests :
        requests[i].kind = "event"
            => /\ i > 1
               /\ requests[i - 1].kind = "session"
               /\ requests[i].params = requests[i - 1].params
               /\ \A k \in UtmKeys :
                     TruthyProp(trackerData, k)
                        => Has(requests[i].params, k)

-----------------------------------------------------------------------------
(* Read, modify and write of the record within one initialization *)

\* C31: the step of an initialization that reads the record is the step that
\* writes it back.  The record it read is the one storage held when the step
\* began, and when storage accepts the write the step ends with the modified
\* record persisted, whatever other initializations are suspended and
\* whatever calls of giveConsent, revokeConsent and reinitialize surround it.
C31_ReadModifyWriteInOneStep ==
    [][InitRan'
          => /\ last'.stored = getStoredData(localStorage, storageMode')
             /\ trackerData' # NULL
             /\ ~setItemThrows(storageMode') => Persisted' = trackerData'
             /\ setItemThrows(storageMode') => TrackerItem' = TrackerItem]_vars

\* a second initialization ran while the first was suspended on its report
C31_Witness ==
    /\ InitRan
    /\ last.op = "reinitialize"
    /\ Len(tasks) = 2
    /\ last.stored # NULL
    /\ last.stored.page_views = 1
    /\ Persisted = trackerData
    /\ trackerData.page_views = 2

-----------------------------------------------------------------------------
(* Expiry at the boundary *)

\* C32: the expiry test is strict.  A load that reads a Valid record whose
\* age is exactly the timeout continues the session (same id, page_views one
\* higher), and a load that reads a Valid record starts a new session only
\* when the age is greater than the timeout.
C32_ExpiryIsStrict ==
    /\ (StoredValid /\ StoredAge = SESSION_TIMEOUT_MS)
          => /\ last.init = "continue"
             /\ trackerData.uuid = last.stored.uuid
             /\ trackerData.page_views = last.stored.page_views + 1
    /\ (StoredValid /\ last.init = "create") => StoredAge > SESSION_TIMEOUT_MS

\* a load exactly one timeout after the load that created the session
C32_Witness ==
    /\ StoredValid
    /\ StoredAge = SESSION_TIMEOUT_MS
    /\ last.init = "continue"
    /\ Persisted # NULL
    /\ Persisted.page_views = 2

-----------------------------------------------------------------------------
(* Consecutive loads *)

\* C33: a load that comes no more than the timeout after the previous load
\* continues the session, whatever branch the previous load took: it keeps the
\* id that load persisted and persists page_views one higher.
C33_LoadWithinTimeoutContinues ==
    [][(loads >= 1 /\ loads' = loads + 1 /\ Persisted # NULL
          /\ now' - now <= SESSION_TIMEOUT_MS)
          => /\ last'.init = "continue"
             /\ Persisted' # NULL
             /\ Persisted'.uuid = Persisted.uuid
             /\ Persisted'.page_views = Persisted.page_views + 1]_vars

-----------------------------------------------------------------------------
(* reinitialize() on an initialized tracker *)

\* C34: reinitialize() called while the tracker is marked initialized takes
\* the early return and changes neither the record in memory or in storage,
\* nor the links and controls, sends no request, starts no task and arms no
\* observer.
C34_ReinitializeWhenInitializedIsNoOp ==
    [][(isInitialized /\ last'.op = "reinitialize")
          => /\ last'.init = "noop"
             /\ UNCHANGED <<trackerData, lmvTrackerData, localStorage, links,
                            elements, requests, tasks, observers, uuids,
                            isInitialized, consentGiven,
                            pendingInitialization>>]_vars

C34_Witness ==
    /\ last.op = "reinitialize"
    /\ last.init = "noop"
    /\ isInitialized
    /\ trackerData # NULL
    /\ trackerData.page_views = 1
    /\ Persisted = trackerData
    /\ observers = 1
    /\ Len(requests) = 2

-----------------------------------------------------------------------------
(* The initialized flag, the watcher and the reports under revocation *)

\* C35: whenever the tracker is marked initialized, the record in memory is
\* not null and has an identifier.
C35_InitializedHasRecord ==
    isInitialized => (trackerData # NULL /\ TruthyNum(trackerData, "uuid"))

\* C36: at most one observer is armed on a page.
C36_AtMostOneObserver == observers <= 1

\* C37: every page-view event request carries the id of a session whose
\* session request the API has answered with a success.
C37_EventForAcknowledgedSession ==
    \A i \in DOMAIN requests :
        requests[i].kind = "event" => requests[i].uuid \in acknowledged

-----------------------------------------------------------------------------
(* Storage of the record under the consent requirement *)

\* C38: with requireConsent, a step writes the tracking record to storage
\* only if it ends with the stored consent value equal to 'true', and no step
\* ends with a tracking record in storage while the stored consent value is
\* absent or different from 'true'.
C38_RecordStoredOnlyWithConsent ==
    [][config.requireConsent
          => /\ (TrackerItem' # TrackerItem /\ TrackerItem' # <<>>)
                   => StoredConsentIsTrue'
             /\ ~StoredConsentIsTrue' => TrackerItem' = <<>>]_vars

\* consent was given after a blocked load, the record was written, and a
\* revocation then removed it
C38_Witness ==
    /\ config.requireConsent
    /\ last.op = "revokeConsent"
    /\ ~StoredConsentIsTrue
    /\ TrackerItem = <<>>
    /\ Len(requests) >= 1
    /\ pendingInitialization

-----------------------------------------------------------------------------
(* giveConsent and revokeConsent as the host page sees them *)

\* C39: after giveConsent() returns, hasConsent() returns true.
C39_ConsentGivenAfterGiveConsent ==
    last.op = "giveConsent" => hasConsent(Cur)

\* C40: when revokeConsent() has returned, the links of the document carry
\* neither a session id nor a UTM value that decoration added: every link has
\* the query it had when the page was parsed.
C40_RevokeUndecoratesLinks ==
    last.op = "revokeConsent"
        => \A i \in DOMAIN links : links[i].query = InitialLinks[i].query

=============================================================================
